---- MODULE Spec2Model ----
(***************************************************************************)
(* Retail data analysis: the data-preparation script (database.py) that    *)
(* cleans three CSV files and loads them into a SQLite file, and the       *)
(* dashboard's cached read path (dashboard_app.py, get_data_from_db).      *)
(*                                                                         *)
(* Columns no statement of the script reads (Age, Gender, ProductName,      *)
(* Category, StockLevel, CustomerID and QuantityPurchased of a sale) are   *)
(* pass-through columns of the script and are left out of its rows; the    *)
(* stores the dashboard's queries are evaluated on carry the columns the   *)
(* queries read.                                                           *)
(***************************************************************************)
EXTENDS Integers, Sequences, FiniteSets, TLC

VARIABLES
    csv,                    \* the three raw CSV files on disk
    pc,                     \* position of the data-preparation script
    df_customers_cleaned,   \* pandas frames of the running script
    df_products_cleaned,
    df_sales_cleaned,
    db,                     \* the SQLite file DB_FILE, as other processes see it
    cache,                  \* st.cache_data of get_data_from_db: query text -> value
    returned,               \* the value get_data_from_db returned to the page, until shown
    unclosed,               \* connections get_data_from_db opened and did not close
    before,                 \* history: the tables as they were when the script began
                            \* to load them; the tables of db while it loads none
    snapshot                \* history: input and db of the last run that finished

vars == <<csv, pc, df_customers_cleaned, df_products_cleaned, df_sales_cleaned,
          db, cache, returned, unclosed, before, snapshot>>

-----------------------------------------------------------------------------
(* Bounds of the model *)

MaxCustomers == 2
MaxProducts == 2
MaxSales == 3
MaxRows == 3
MaxDeployedSales == 1
MaxRfmCustomers == 5
MaxTiedPairs == 2
MaxTrendCustomers == 2
MaxKpiSales == 3
MaxInventoryProducts == 2
MaxInventorySales == 1

-----------------------------------------------------------------------------
(* Values *)

\* A text is a sequence of one-character strings.  NaN is pandas' missing
\* value of an object column; it is no text (its element is no character).
NaN == <<"NaN">>
Unknown == <<"U", "n", "k", "n", "o", "w", "n">>
\* The missing value of a float column (product prices are never negative).
NaNPrice == -1

\* The except branches returning a frame with columns and no rows.
FrameWithoutRows == [columns |-> TRUE, rows |-> << >>]

\* pd.DataFrame(), the value of the except branches of get_data_from_db: a frame
\* without columns.  A query that succeeds returns a frame with its columns.
EmptyDataFrame == [columns |-> FALSE, rows |-> << >>]

\* A table DB_FILE does not hold.
Absent == [present |-> FALSE, primary_key |-> FALSE, rows |-> << >>]

\* Raw field texts of the CSV files.
RawLocations == {<< >>, <<" ">>, <<"P">>, <<"N", "A">>}
RawDates == {<<15, 3, 23>>, <<31, 2, 23>>}
CustomerIDs == {1, 2}
ProductIDs == {1, 2}
TransactionIDs == {1, 2}
Prices == {10, 12}

RawCustomerRows == [CustomerID : CustomerIDs, Location : RawLocations, JoinDate : RawDates]
RawProductRows == [ProductID : ProductIDs, Price : Prices]
RawSalesRows == [TransactionID : TransactionIDs, ProductID : ProductIDs,
                 Price : Prices, TransactionDate : RawDates]

Tuples(S, n) == [1..n -> S]

\* The file triples with at most MaxRows data rows in all.
RawFiles ==
    UNION { UNION { UNION {
        [customers : Tuples(RawCustomerRows, c),
         products : Tuples(RawProductRows, p),
         sales : Tuples(RawSalesRows, s),
         missing : {{}}]
        : s \in 0..(IF MaxRows - c - p < MaxSales THEN MaxRows - c - p ELSE MaxSales) }
        : p \in 0..(IF MaxRows - c < MaxProducts THEN MaxRows - c ELSE MaxProducts) }
        : c \in 0..MaxCustomers }

-----------------------------------------------------------------------------
(* pandas operations used by database.py *)

\* pd.read_csv turns an empty field (and the text NA) into NaN and keeps every
\* other text, whitespace included.
ReadCsvText(t) == IF t \in {<< >>, <<"N", "A">>} THEN NaN ELSE t

\* pd.read_csv: the rows in file order under a RangeIndex 0..n-1.
ReadCustomers(file) ==
    [i \in DOMAIN file |->
        [idx |-> i - 1, CustomerID |-> file[i].CustomerID,
         Location |-> ReadCsvText(file[i].Location), JoinDate |-> file[i].JoinDate]]

ReadProducts(file) ==
    [i \in DOMAIN file |->
        [idx |-> i - 1, ProductID |-> file[i].ProductID, Price |-> file[i].Price]]

ReadSales(file) ==
    [i \in DOMAIN file |->
        [idx |-> i - 1, TransactionID |-> file[i].TransactionID,
         ProductID |-> file[i].ProductID, Price |-> file[i].Price,
         TransactionDate |-> file[i].TransactionDate]]

IsLeap(y) == (y % 4 = 0 /\ y % 100 # 0) \/ y % 400 = 0

DaysInMonth(m, y) ==
    IF m = 2 THEN (IF IsLeap(y) THEN 29 ELSE 28)
    ELSE IF m \in {4, 6, 9, 11} THEN 30 ELSE 31

\* %y of strptime: 69..99 are 1969..1999, 0..68 are 2000..2068.
Century(yy) == IF yy >= 69 THEN 1900 + yy ELSE 2000 + yy

\* Whether format='%d/%m/%y' accepts the text <<dd, mm, yy>>.
Parses(t) ==
    /\ t[3] \in 0..99
    /\ t[2] \in 1..12
    /\ t[1] \in 1..DaysInMonth(t[2], Century(t[3]))

\* pd.to_datetime(..., format='%d/%m/%y') of one text.
ToDatetime(t) == [year |-> Century(t[3]), month |-> t[2], day |-> t[1]]

\* .dt.strftime('%Y-%m-%d'): the ISO text, as <<yyyy, mm, dd>>.
Strftime(d) == <<d.year, d.month, d.day>>

\* Series.fillna('Unknown') of one value.
Fillna(v) == IF v = NaN THEN Unknown ELSE v

\* keep='last'.
KeepLast(keys, i) == \A j \in DOMAIN keys : j > i => keys[j] # keys[i]

\* DataFrame.drop_duplicates(subset=[key]) keeps the first row of each key:
\* whether row i of the key column survives.
KeepFirst(keys, i) == \A j \in DOMAIN keys : j < i => keys[j] # keys[i]

RECURSIVE SelectRows(_, _, _)
SelectRows(df, keys, i) ==
    IF i > Len(df) THEN << >>
    ELSE (IF KeepFirst(keys, i) THEN <<df[i]>> ELSE << >>) \o SelectRows(df, keys, i + 1)

\* drop_duplicates without inplace=True, its result not assigned.
DropNothing(df, keys) == df

\* The frame without the rows drop_duplicates removes; the surviving rows keep
\* their index labels.
DropDuplicates(df, keys) == SelectRows(df, keys, 1)

\* The comparison Price_transaction != Price_inventory of two float values:
\* NaN differs from everything, itself included.
PriceNe(a, b) == a = NaNPrice \/ b = NaNPrice \/ a # b

RECURSIVE MergeRows(_, _, _)
MergeRows(sales, products, i) ==
    IF i > Len(sales) THEN << >>
    ELSE LET found == SelectSeq(products, LAMBDA p : p.ProductID = sales[i].ProductID)
             joined == IF found = << >>
                       THEN <<[Price_transaction |-> sales[i].Price,
                               Price_inventory |-> NaNPrice]>>
                       ELSE [k \in DOMAIN found |->
                                [Price_transaction |-> sales[i].Price,
                                 Price_inventory |-> found[k].Price]]
         IN  joined \o MergeRows(sales, products, i + 1)

\* pd.merge(df_sales_cleaned, df_products_cleaned[['ProductID', 'Price']],
\* on='ProductID', how='left'): one row per sale and matching product, in the
\* order of the sales, a sale without product once with Price_inventory NaN;
\* row k of the result has the fresh index label k - 1.
Merge(sales, products) == MergeRows(sales, products, 1)

\* The boolean Series Price_transaction != Price_inventory of the merged frame.
Mismatch(merged) ==
    [k \in DOMAIN merged |-> PriceNe(merged[k].Price_transaction, merged[k].Price_inventory)]

mismatched_prices_count(merged) ==
    Cardinality({k \in DOMAIN merged : Mismatch(merged)[k]})

\* .loc[mask, ...] with a boolean Series aligns the mask to the frame by index
\* label and raises IndexingError when a label of the frame is not in the mask.
Unalignable(df, merged) ==
    \E i \in DOMAIN df : df[i].idx \notin 0..(Len(merged) - 1)

\* The assignment left out.
LocKeepPrice(df, merged) == df

\* df_sales_cleaned.loc[mask, 'Price'] = merged.loc[mask, 'Price_inventory']:
\* the rows whose label the mask selects take the value the right-hand Series
\* holds under the same label.
LocSetPrice(df, merged) ==
    [i \in DOMAIN df |->
        IF Mismatch(merged)[df[i].idx + 1]
        THEN [df[i] EXCEPT !.Price = merged[df[i].idx + 1].Price_inventory]
        ELSE df[i]]

-----------------------------------------------------------------------------
(* SQLite file and pandas.to_sql *)

customer_profiles == 1
product_inventory == 2
sales_transaction == 3

NoDb == [exists |-> FALSE, tables |-> [t \in 1..3 |-> Absent]]

\* sqlite3.connect(DB_FILE) creates the file when it does not exist.
Connect(d) == [d EXCEPT !.exists = TRUE]

\* CREATE TABLE IF NOT EXISTS ... (<key> INTEGER PRIMARY KEY, ...).
CreateTableIfNotExists(tbl) ==
    IF tbl.present THEN tbl ELSE [present |-> TRUE, primary_key |-> TRUE, rows |-> << >>]

\* if_exists='append': the table is kept.
DropTableAppend(tbl) == tbl

\* to_sql(if_exists='replace') of a table that exists: DROP TABLE.
DropTable(tbl) == Absent

\* to_sql then creates the table from the frame's columns, without a key.
CreateTable(tbl) ==
    IF tbl.present THEN tbl ELSE [present |-> TRUE, primary_key |-> FALSE, rows |-> << >>]

\* to_sql inserts the frame's rows in one transaction and commits it.
InsertRows(tbl, rows) == [tbl EXCEPT !.rows = @ \o rows]

\* The rows to_sql(index=False) writes: the frame's columns without its index.
CustomerRecords(df) ==
    [i \in DOMAIN df |-> [CustomerID |-> df[i].CustomerID, Location |-> df[i].Location,
                          JoinDate |-> df[i].JoinDate]]

ProductRecords(df) ==
    [i \in DOMAIN df |-> [ProductID |-> df[i].ProductID, Price |-> df[i].Price]]

SalesRecords(df) ==
    [i \in DOMAIN df |-> [TransactionID |-> df[i].TransactionID,
                          ProductID |-> df[i].ProductID, Price |-> df[i].Price,
                          TransactionDate |-> df[i].TransactionDate]]

\* The frame each to_sql call writes.
FrameOf(t) ==
    IF t = customer_profiles THEN CustomerRecords(df_customers_cleaned)
    ELSE IF t = product_inventory THEN ProductRecords(df_products_cleaned)
    ELSE SalesRecords(df_sales_cleaned)

-----------------------------------------------------------------------------
(* database.py, top to bottom *)

At(step) == pc.step = step
Goto(step) == pc' = [step |-> step, table |-> 0]

Finished == pc.step \in {"idle", "done", "crashed", "exited"}

frames == <<df_customers_cleaned, df_products_cleaned, df_sales_cleaned>>
dashboard == <<cache, returned, unclosed>>
history == <<before, snapshot>>

\* The operator starts the script: a new process, no frames yet.
StartRun ==
    /\ Finished
    /\ Goto("start")
    /\ df_customers_cleaned' = << >>
    /\ df_products_cleaned' = << >>
    /\ df_sales_cleaned' = << >>
    /\ UNCHANGED <<csv, db, dashboard, history>>

\* 1. pd.read_csv of the three files; a missing file ends the script with exit().
LoadCsv ==
    /\ At("start")
    /\ IF csv.missing # {}
       THEN /\ Goto("exited")
            /\ UNCHANGED frames
       ELSE /\ Goto("loaded")
            /\ df_customers_cleaned' = ReadCustomers(csv.customers)
            /\ df_products_cleaned' = ReadProducts(csv.products)
            /\ df_sales_cleaned' = ReadSales(csv.sales)
    /\ UNCHANGED <<csv, db, dashboard, history>>

\* 2.1 JoinDate to datetime (raises on a text the format rejects), Location
\* fillna, drop_duplicates on CustomerID.
CleanCustomers ==
    /\ At("loaded")
    /\ IF \E i \in DOMAIN df_customers_cleaned : ~Parses(df_customers_cleaned[i].JoinDate)
       THEN /\ Goto("crashed")
            /\ UNCHANGED df_customers_cleaned
       ELSE /\ Goto("customers_cleaned")
            /\ LET parsed == [i \in DOMAIN df_customers_cleaned |->
                                [df_customers_cleaned[i] EXCEPT
                                    !.JoinDate = ToDatetime(@),
                                    !.Location = Fillna(@)]]
               IN  df_customers_cleaned' =
                       DropDuplicates(parsed, [i \in DOMAIN parsed |-> parsed[i].CustomerID])
    /\ UNCHANGED <<csv, df_products_cleaned, df_sales_cleaned, db, dashboard, history>>

\* 2.2 drop_duplicates on ProductID.
CleanProducts ==
    /\ At("customers_cleaned")
    /\ Goto("products_cleaned")
    /\ df_products_cleaned' =
           DropDuplicates(df_products_cleaned,
                          [i \in DOMAIN df_products_cleaned |-> df_products_cleaned[i].ProductID])
    /\ UNCHANGED <<csv, df_customers_cleaned, df_sales_cleaned, db, dashboard, history>>

\* 2.3 TransactionDate to datetime (raises on a text the format rejects),
\* drop_duplicates on TransactionID.
CleanSales ==
    /\ At("products_cleaned")
    /\ IF \E i \in DOMAIN df_sales_cleaned : ~Parses(df_sales_cleaned[i].TransactionDate)
       THEN /\ Goto("crashed")
            /\ UNCHANGED df_sales_cleaned
       ELSE /\ Goto("sales_cleaned")
            /\ LET parsed == [i \in DOMAIN df_sales_cleaned |->
                                [df_sales_cleaned[i] EXCEPT !.TransactionDate = ToDatetime(@)]]
               IN  df_sales_cleaned' =
                       DropDuplicates(parsed, [i \in DOMAIN parsed |-> parsed[i].TransactionID])
    /\ UNCHANGED <<csv, df_customers_cleaned, df_products_cleaned, db, dashboard, history>>

\* Price reconciliation: merge, count the mismatches and, when there is one,
\* the .loc assignment, which raises when the mask cannot be aligned.
ReconcilePrices ==
    /\ At("sales_cleaned")
    /\ LET merged == Merge(df_sales_cleaned, df_products_cleaned)
       IN  IF mismatched_prices_count(merged) > 0
           THEN IF Unalignable(df_sales_cleaned, merged)
                THEN /\ Goto("crashed")
                     /\ UNCHANGED df_sales_cleaned
                ELSE /\ Goto("reconciled")
                     /\ df_sales_cleaned' = LocSetPrice(df_sales_cleaned, merged)
           ELSE /\ Goto("reconciled")
                /\ UNCHANGED df_sales_cleaned
    /\ UNCHANGED <<csv, df_customers_cleaned, df_products_cleaned, db, dashboard, history>>

\* 3. sqlite3.connect, the three CREATE TABLE IF NOT EXISTS (each committed as
\* it is executed), and the dates of the frames to 'YYYY-MM-DD' text.
EnsureTables ==
    /\ At("reconciled")
    /\ pc' = [step |-> "drop", table |-> customer_profiles]
    /\ db' = [exists |-> TRUE,
              tables |-> [t \in 1..3 |-> CreateTableIfNotExists(db.tables[t])]]
    /\ before' = db'.tables
    /\ df_customers_cleaned' =
           [i \in DOMAIN df_customers_cleaned |->
               [df_customers_cleaned[i] EXCEPT !.JoinDate = Strftime(@)]]
    /\ df_sales_cleaned' =
           [i \in DOMAIN df_sales_cleaned |->
               [df_sales_cleaned[i] EXCEPT !.TransactionDate = Strftime(@)]]
    /\ UNCHANGED <<csv, df_products_cleaned, dashboard, snapshot>>

\* to_sql(name, conn, if_exists='replace', index=False) runs three statements,
\* each committed before the next: DROP TABLE, CREATE TABLE, INSERT.
ToSqlDrop ==
    /\ At("drop")
    /\ pc' = [pc EXCEPT !.step = "create"]
    /\ db' = [db EXCEPT !.tables[pc.table] = DropTable(@)]
    /\ UNCHANGED <<csv, frames, dashboard, history>>

ToSqlCreate ==
    /\ At("create")
    /\ pc' = [pc EXCEPT !.step = "insert"]
    /\ db' = [db EXCEPT !.tables[pc.table] = CreateTable(@)]
    /\ UNCHANGED <<csv, frames, dashboard, history>>

ToSqlInsert ==
    /\ At("insert")
    /\ pc' = IF pc.table < sales_transaction
             THEN [step |-> "drop", table |-> pc.table + 1]
             ELSE [step |-> "commit", table |-> 0]
    /\ db' = [db EXCEPT !.tables[pc.table] = InsertRows(@, FrameOf(pc.table))]
    /\ UNCHANGED <<csv, frames, dashboard, history>>

\* conn.commit() (nothing is left to commit) and conn.close().
CommitClose ==
    /\ At("commit")
    /\ Goto("done")
    /\ snapshot' = [valid |-> TRUE, input |-> csv, db |-> db,
                    repeated |-> snapshot.valid /\ snapshot.input = csv]
    /\ before' = db.tables
    /\ UNCHANGED <<csv, frames, db, dashboard>>

\* A statement of to_sql raises (the file is locked by another process, the disk
\* is full): nothing catches it and the script ends.  The statement that
\* raised has no effect; the statements committed before it stay.
WriteFails ==
    /\ pc.step \in {"drop", "create", "insert"}
    /\ Goto("crashed")
    /\ before' = db.tables
    /\ UNCHANGED <<csv, frames, db, dashboard, snapshot>>

-----------------------------------------------------------------------------
(* dashboard_app.py: get_data_from_db under @st.cache_data *)

\* kpis: "SELECT COUNT(DISTINCT ProductID) AS NumberOfUniqueProductsSold FROM
\* sales_transaction;"
unique_products_sold_query == "unique_products_sold_query"

Queries == {unique_products_sold_query}

\* The table a query text reads.
TableOf(q) == sales_transaction

\* The result of the query on the rows of its table: one row, the count.
Evaluate(q, rows) ==
    [columns |-> TRUE, rows |-> <<Cardinality({rows[i].ProductID : i \in DOMAIN rows})>>]

\* The body of get_data_from_db: pd.read_sql raises when the table is not in
\* the file, and the except branch returns pd.DataFrame().
ReadSql(q, d) ==
    IF d.tables[TableOf(q)].present
    THEN Evaluate(q, d.tables[TableOf(q)].rows)
    ELSE EmptyDataFrame

\* st.cache_data: whether the call is answered from the cache.  The key is the
\* query text alone and an entry is never dropped.
CacheHit(entry) == entry # << >>

\* conn.close() is the statement after pd.read_sql in the try block: it runs
\* when the read returned a frame and is skipped when the read raised.
UnclosedAfter(df) == IF df = EmptyDataFrame THEN unclosed + 1 ELSE unclosed

\* One call of get_data_from_db(q), frames being the frames the body can
\* return: from the cache, or by connecting (which creates DB_FILE when it is
\* not there) and reading; what the body returns, the value of an except
\* branch included, is cached.  An entry also records (history) whether it was
\* computed on the tables a finished run left.
GetDataFrom(q, results) ==
    /\ returned = << >>
    /\ IF CacheHit(cache[q])
       THEN /\ returned' = <<[query |-> q, df |-> cache[q][1].df]>>
            /\ UNCHANGED <<db, cache, unclosed>>
       ELSE \E df \in results :
               /\ db' = Connect(db)
               /\ cache' = [cache EXCEPT ![q] = <<[df |-> df, settled |-> At("done")]>>]
               /\ returned' = <<[query |-> q, df |-> df]>>
               /\ unclosed' = UnclosedAfter(df)
    /\ UNCHANGED <<csv, pc, frames, history>>

GetData(q) == GetDataFrom(q, {ReadSql(q, db)})

Query == \E q \in Queries : GetData(q)

\* The page shows the value it got (st.metric) and goes on.
Render ==
    /\ returned # << >>
    /\ returned' = << >>
    /\ UNCHANGED <<csv, pc, frames, db, cache, unclosed, history>>

\* The interpreter finalises the connection objects nothing refers to any more.
Collect ==
    /\ unclosed > 0
    /\ unclosed' = 0
    /\ UNCHANGED <<csv, pc, frames, db, cache, returned, history>>

-----------------------------------------------------------------------------
(* dashboard_app.py, rfm_analysis: rfm_query *)

rfm_query == "rfm_query"

\* JULIANDAY of a 'YYYY-MM-DD' text, here <<yyyy, mm, dd>>: the number of the
\* day (SQLite's value is half a day less, which the difference cancels).
JulianDay(t) ==
    LET a == (14 - t[2]) \div 12
        y == t[1] + 4800 - a
        m == t[2] + 12 * a - 3
    IN  t[3] + (153 * m + 2) \div 5 + 365 * y + y \div 4 - y \div 100 + y \div 400 - 32045

\* The order of two 'YYYY-MM-DD' texts, which MAX compares as texts: with
\* fields of fixed width, field by field.
TextLe(a, b) ==
    \/ a[1] < b[1]
    \/ a[1] = b[1] /\ a[2] < b[2]
    \/ a[1] = b[1] /\ a[2] = b[2] /\ a[3] <= b[3]

\* MAX(TransactionDate) over the rows numbered in of.
MaxTransactionDate(rows, of) ==
    CHOOSE d \in {rows[i].TransactionDate : i \in of} :
        \A i \in of : TextLe(rows[i].TransactionDate, d)

RECURSIVE Sum(_, _)
Sum(f, S) ==
    IF S = {} THEN 0
    ELSE LET x == CHOOSE x \in S : TRUE IN f[x] + Sum(f, S \ {x})

\* The rows of one group of GROUP BY CustomerID.
RowsOf(rows, c) == {i \in DOMAIN rows : rows[i].CustomerID = c}

\* Recency measured to the customer's first purchase instead of the last.
RecencyFromFirst(rows, c) ==
    JulianDay(MaxTransactionDate(rows, DOMAIN rows))
        - JulianDay(CHOOSE d \in {rows[i].TransactionDate : i \in RowsOf(rows, c)} :
                        \A i \in RowsOf(rows, c) : TextLe(d, rows[i].TransactionDate))

\* JULIANDAY((SELECT MAX(TransactionDate) FROM sales_transaction))
\*     - JULIANDAY(MAX(TransactionDate)) of the group of c.
RecencyInDays(rows, c) ==
    JulianDay(MaxTransactionDate(rows, DOMAIN rows))
        - JulianDay(MaxTransactionDate(rows, RowsOf(rows, c)))

\* The CTE CustomerRFM: one row per CustomerID of sales_transaction.
CustomerRFM(rows) ==
    [c \in {rows[i].CustomerID : i \in DOMAIN rows} |->
        [CustomerID |-> c,
         RecencyInDays |-> RecencyInDays(rows, c),
         Frequency |-> Cardinality({rows[i].TransactionID : i \in RowsOf(rows, c)}),
         MonetaryValue |-> Sum([i \in DOMAIN rows |-> rows[i].QuantityPurchased * rows[i].Price],
                               RowsOf(rows, c))]]

RECURSIVE Orderings(_)
Orderings(S) ==
    IF S = {} THEN {<< >>}
    ELSE UNION {{<<x>> \o o : o \in Orderings(S \ {x})} : x \in S}

\* ORDER BY key [DESC] of the rows of t: the orders the engine may produce.
\* The statement names no second key, so the order of two rows with the same
\* key is the engine's (it depends on the sorts it ran before).
OrderBy(t, key, desc) ==
    {o \in Orderings(DOMAIN t) :
        \A i, j \in DOMAIN o :
            i < j => IF desc THEN t[o[i]][key] >= t[o[j]][key]
                             ELSE t[o[i]][key] <= t[o[j]][key]}

\* Buckets numbered from 0.
NtileFromZero(buckets, k, n) == (k - 1) % buckets

\* NTILE(buckets) of row k of n ordered rows: the first n % buckets groups
\* hold one row more than the others.
NTILE(buckets, k, n) ==
    LET q == n \div buckets
        r == n % buckets
    IN  IF k <= r * (q + 1)
        THEN (k - 1) \div (q + 1) + 1
        ELSE r + (k - r * (q + 1) - 1) \div q + 1

\* NTILE(5) OVER (ORDER BY ...): the score of every row under the order o.
ScoresOf(o) ==
    [c \in {o[k] : k \in DOMAIN o} |->
        NTILE(5, CHOOSE k \in DOMAIN o : o[k] = c, Len(o))]

\* Recency scored like the other two, ascending.
RecencyAscending(t) == {ScoresOf(o) : o \in OrderBy(t, "RecencyInDays", FALSE)}

R_Score(t) == {ScoresOf(o) : o \in OrderBy(t, "RecencyInDays", TRUE)}
F_Score(t) == {ScoresOf(o) : o \in OrderBy(t, "Frequency", FALSE)}
M_Score(t) == {ScoresOf(o) : o \in OrderBy(t, "MonetaryValue", FALSE)}

\* The WHEN of 'Best Customers' without its test of M_Score.
BestCustomersByFrequency(r, f, m) ==
    IF r = 5 /\ f = 5 /\ m = 5 THEN "Champions"
    ELSE IF r = 5 /\ f >= 4 THEN "Loyal Customers"
    ELSE IF r >= 4 /\ f = 5 THEN "Loyal Customers"
    ELSE IF r >= 4 /\ f >= 4 /\ m >= 4 THEN "Potential Loyalists"
    ELSE IF r = 5 /\ f >= 3 THEN "New Customers"
    ELSE IF r >= 4 /\ m >= 4 THEN "Promising"
    ELSE IF r <= 2 /\ f <= 2 /\ m <= 2 THEN "Lost Customers"
    ELSE IF r <= 2 /\ f >= 3 THEN "At Risk"
    ELSE IF r <= 2 /\ m >= 3 THEN "Can't Lose Them"
    ELSE IF f = 5 THEN "Best Customers"
    ELSE "Other Segment"

\* The WHEN of 'Best Customers' moved to the top of the CASE.
BestCustomersFirst(r, f, m) ==
    IF f = 5 /\ m = 5 THEN "Best Customers"
    ELSE IF r = 5 /\ f >= 4 THEN "Loyal Customers"
    ELSE IF r >= 4 /\ f = 5 THEN "Loyal Customers"
    ELSE IF r >= 4 /\ f >= 4 /\ m >= 4 THEN "Potential Loyalists"
    ELSE IF r = 5 /\ f >= 3 THEN "New Customers"
    ELSE IF r >= 4 /\ m >= 4 THEN "Promising"
    ELSE IF r <= 2 /\ f <= 2 /\ m <= 2 THEN "Lost Customers"
    ELSE IF r <= 2 /\ f >= 3 THEN "At Risk"
    ELSE IF r <= 2 /\ m >= 3 THEN "Can't Lose Them"
    ELSE "Other Segment"

\* CASE WHEN ... END AS CustomerSegment: the first WHEN that holds.
CustomerSegment(r, f, m) ==
    IF r = 5 /\ f = 5 /\ m = 5 THEN "Champions"
    ELSE IF r = 5 /\ f >= 4 THEN "Loyal Customers"
    ELSE IF r >= 4 /\ f = 5 THEN "Loyal Customers"
    ELSE IF r >= 4 /\ f >= 4 /\ m >= 4 THEN "Potential Loyalists"
    ELSE IF r = 5 /\ f >= 3 THEN "New Customers"
    ELSE IF r >= 4 /\ m >= 4 THEN "Promising"
    ELSE IF r <= 2 /\ f <= 2 /\ m <= 2 THEN "Lost Customers"
    ELSE IF r <= 2 /\ f >= 3 THEN "At Risk"
    ELSE IF r <= 2 /\ m >= 3 THEN "Can't Lose Them"
    ELSE IF f = 5 /\ m = 5 THEN "Best Customers"
    ELSE "Other Segment"

\* The rows of the final SELECT for one choice of the three scorings.
RFMScores(t, rs, fs, ms) ==
    [c \in DOMAIN t |->
        [CustomerID |-> c,
         RecencyInDays |-> t[c].RecencyInDays,
         Frequency |-> t[c].Frequency,
         MonetaryValue |-> t[c].MonetaryValue,
         R_Score |-> rs[c], F_Score |-> fs[c], M_Score |-> ms[c],
         CustomerSegment |-> CustomerSegment(rs[c], fs[c], ms[c])]]

\* The results rfm_query can have on the rows of sales_transaction: the scored
\* rows, ORDER BY MonetaryValue DESC.
RfmResults(rows) ==
    LET t == CustomerRFM(rows)
    IN  UNION {{[k \in DOMAIN o |-> RFMScores(t, rs, fs, ms)[o[k]]]
                   : o \in OrderBy(t, "MonetaryValue", TRUE)}
               : <<rs, fs, ms>> \in R_Score(t) \X F_Score(t) \X M_Score(t)}

\* The frames the body of get_data_from_db(rfm_query) can return.
ReadRfm(d) ==
    IF d.tables[sales_transaction].present
    THEN {[columns |-> TRUE, rows |-> r] : r \in RfmResults(d.tables[sales_transaction].rows)}
    ELSE {EmptyDataFrame}

\* rfm_analysis: df_rfm = get_data_from_db(rfm_query).
rfm_analysis == GetDataFrom(rfm_query, ReadRfm(db))

-----------------------------------------------------------------------------
(* dashboard_app.py, sales_trend *)

\* A query text of sales_trend: the statement and the where_clause put into
\* it, "" (filtered FALSE) or "WHERE STRFTIME('%Y', TransactionDate) IN
\* (...)" with the years it names.  A year text 'YYYY' is written as the
\* number of the year.
QueryText(name, where_clause) ==
    [name |-> name, filtered |-> where_clause.filtered, years |-> where_clause.years]

NoWhere == [filtered |-> FALSE, years |-> {}]

years_query == QueryText("years_query", NoWhere)
monthly_sales_query(where_clause) == QueryText("monthly_sales_query", where_clause)
top_months_revenue_query(where_clause) == QueryText("top_months_revenue_query", where_clause)
top_days_revenue_query(where_clause) == QueryText("top_days_revenue_query", where_clause)
top_months_transactions_query(where_clause) ==
    QueryText("top_months_transactions_query", where_clause)
top_days_transactions_query(where_clause) ==
    QueryText("top_days_transactions_query", where_clause)

\* The option 'All Years' of the multiselect, and the option of a year.
AllYears == [all |-> TRUE, year |-> 0]
YearOption(y) == [all |-> FALSE, year |-> y]

\* default=['2023'] of the multiselect.
DefaultYears == {YearOption(2023)}

\* The where_clause without its test of the year.
WhereAnyYear(rows, q) == rows

\* The rows of sales_transaction the where_clause of q keeps.
Where(rows, q) ==
    SelectSeq(rows, LAMBDA r : ~q.filtered \/ r.TransactionDate[1] \in q.years)

\* STRFTIME('%Y-%m', TransactionDate) and STRFTIME('%Y-%m-%d', TransactionDate)
\* of a 'YYYY-MM-DD' text.
StrftimeOf(q, date) ==
    IF q.name \in {"top_days_revenue_query", "top_days_transactions_query"}
    THEN date
    ELSE <<date[1], date[2]>>

\* The order of two period texts, field by field; a month text is compared on
\* its two fields.
PeriodLe(a, b) ==
    \/ a[1] < b[1]
    \/ a[1] = b[1] /\ a[2] < b[2]
    \/ a[1] = b[1] /\ a[2] = b[2] /\ (Len(a) = 2 \/ a[3] <= b[3])

\* GROUP BY SalesPeriod (or SalesDate) with the two aggregates of the
\* statements: SUM(QuantityPurchased * Price), COUNT(DISTINCT TransactionID).
GroupByPeriod(rows, q) ==
    [p \in {StrftimeOf(q, rows[i].TransactionDate) : i \in DOMAIN rows} |->
        LET of == {i \in DOMAIN rows : StrftimeOf(q, rows[i].TransactionDate) = p}
        IN  [SalesPeriod |-> p,
             TotalRevenue |-> Sum([i \in DOMAIN rows |->
                                      rows[i].QuantityPurchased * rows[i].Price], of),
             NumberOfTransactions |-> Cardinality({rows[i].TransactionID : i \in of})]]

\* LIMIT n.
Limit(o, n) == IF Len(o) > n THEN SubSeq(o, 1, n) ELSE o

\* The results a statement of sales_trend can have on the rows of
\* sales_transaction.  ORDER BY SalesPeriod orders the groups fully; ORDER BY
\* an aggregate DESC leaves the order of groups with equal aggregates to the
\* engine.  (The period column of the two statements by day is named
\* SalesDate; it is written SalesPeriod here as in the others.)
TrendResults(q, rows) ==
    LET g == GroupByPeriod(Where(rows, q), q)
    IN  IF q.name = "years_query"
        THEN {[k \in DOMAIN o |-> [SalesYear |-> o[k]]] :
                 o \in {o \in Orderings({rows[i].TransactionDate[1] : i \in DOMAIN rows}) :
                           \A i, j \in DOMAIN o : i < j => o[i] >= o[j]}}
        ELSE IF q.name = "monthly_sales_query"
        THEN {[k \in DOMAIN o |->
                  [SalesPeriod |-> o[k],
                   TotalMonthlyRevenue |-> g[o[k]].TotalRevenue,
                   NumberOfMonthlyTransactions |-> g[o[k]].NumberOfTransactions]] :
                 o \in {o \in Orderings(DOMAIN g) :
                           \A i, j \in DOMAIN o : i < j => PeriodLe(o[i], o[j])}}
        ELSE IF q.name \in {"top_months_revenue_query", "top_days_revenue_query"}
        THEN {[k \in DOMAIN Limit(o, 5) |->
                  [SalesPeriod |-> o[k], TotalRevenue |-> g[o[k]].TotalRevenue]] :
                 o \in OrderBy(g, "TotalRevenue", TRUE)}
        ELSE {[k \in DOMAIN Limit(o, 5) |->
                  [SalesPeriod |-> o[k],
                   NumberOfTransactions |-> g[o[k]].NumberOfTransactions]] :
                 o \in OrderBy(g, "NumberOfTransactions", TRUE)}

\* The frames get_data_from_db(q) can return to sales_trend: the cached one,
\* or those of its body.
Fetch(q) ==
    IF CacheHit(cache[q]) THEN {cache[q][1].df}
    ELSE IF db.tables[sales_transaction].present
    THEN {[columns |-> TRUE, rows |-> r] :
             r \in TrendResults(q, db.tables[sales_transaction].rows)}
    ELSE {EmptyDataFrame}

\* The cache and the unclosed connections after the calls that returned got[q]
\* for the query texts q in DOMAIN got.
Fetched(got) ==
    /\ db' = Connect(db)
    /\ cache' = [q \in DOMAIN cache |->
                    IF q \in DOMAIN got /\ ~CacheHit(cache[q])
                    THEN <<[df |-> got[q], settled |-> At("done")]>>
                    ELSE cache[q]]
    /\ unclosed' = unclosed + Cardinality({q \in DOMAIN got :
                                              ~CacheHit(cache[q]) /\ got[q] = EmptyDataFrame})

\* 'All Years' counting only when it is picked alone.
WhereClauseOfYears(selected_years) ==
    IF selected_years # {} /\ selected_years # {AllYears}
    THEN [filtered |-> TRUE, years |-> {o.year : o \in selected_years \ {AllYears}}]
    ELSE NoWhere

\* if selected_years and 'All Years' not in selected_years: the WHERE with the
\* years picked; else the where_clause stays "".
WhereClause(selected_years) ==
    IF selected_years # {} /\ AllYears \notin selected_years
    THEN [filtered |-> TRUE, years |-> {o.year : o \in selected_years}]
    ELSE NoWhere

\* The elif left out.
NeverNoneSelected(selected_years) == FALSE

\* elif not selected_years.
NoneSelected(selected_years) == selected_years = {}

\* sales_trend with the years the user has picked in the multiselect: the
\* years query, the options, the widget (which raises when its default is no
\* option), the where_clause or the warning and return, and the five
\* statements of the trend and the peak periods.  The page is run once in a
\* session, on an empty cache.
sales_trend ==
    /\ returned = << >>
    /\ \A q \in DOMAIN cache : ~CacheHit(cache[q])
    /\ \E df_years \in Fetch(years_query) :
          LET all_unique_years ==
                  {YearOption(df_years.rows[k].SalesYear) : k \in DOMAIN df_years.rows}
              available_years == {AllYears} \cup all_unique_years
              shown == <<[query |-> years_query, df |-> df_years]>>
          IN  IF ~(DefaultYears \subseteq available_years)
              THEN /\ returned' = shown \o <<[exception |-> "StreamlitAPIException"]>>
                   /\ Fetched((years_query :> df_years))
              ELSE \E selected_years \in SUBSET available_years :
                      LET where_clause == WhereClause(selected_years)
                          statements == <<monthly_sales_query(where_clause),
                                          top_months_revenue_query(where_clause),
                                          top_days_revenue_query(where_clause),
                                          top_months_transactions_query(where_clause),
                                          top_days_transactions_query(where_clause)>>
                          picked == shown \o <<[selected_years |-> selected_years]>>
                      IN  IF NoneSelected(selected_years)
                          THEN /\ returned' = picked \o
                                      <<[warning |-> "Please select at least one year to display sales trends."]>>
                               /\ Fetched((years_query :> df_years))
                          ELSE \E df1 \in Fetch(statements[1]) :
                               \E df2 \in Fetch(statements[2]) :
                               \E df3 \in Fetch(statements[3]) :
                               \E df4 \in Fetch(statements[4]) :
                               \E df5 \in Fetch(statements[5]) :
                                  LET dfs == <<df1, df2, df3, df4, df5>>
                                  IN  /\ returned' =
                                             picked \o [i \in 1..5 |->
                                                           [query |-> statements[i],
                                                            df |-> dfs[i]]]
                                      /\ Fetched((years_query :> df_years)
                                                 @@ [q \in {statements[i] : i \in 1..5} |->
                                                        dfs[CHOOSE i \in 1..5 : statements[i] = q]])
    /\ UNCHANGED <<csv, pc, frames, history>>

-----------------------------------------------------------------------------
(* dashboard_app.py, kpis *)

total_revenue_query == "total_revenue_query"
avg_transaction_value_query == "avg_transaction_value_query"
unique_customers_query == "unique_customers_query"

KpiQueries == {total_revenue_query, avg_transaction_value_query,
               unique_customers_query, unique_products_sold_query}

\* A value of SQLite: its storage class and, for a number, the fraction n / d
\* of hundredths it stands for.
Null == [class |-> "NULL", n |-> 0, d |-> 1]
Number(class, n, d) == [class |-> class, n |-> n, d |-> d]

\* The Price to_sql stores for a sale of product p.  The script has set it
\* to the product's price in the inventory.  to_sql creates the column from
\* the dtype of the frame's column: INTEGER for int64 (read_csv of a file
\* whose prices are all written without a decimal point), REAL for float64.
StoredPrice(dtype, p) ==
    IF dtype = "int64"
    THEN Number("INTEGER", IF p = 1 THEN 1000 ELSE 1200, 1)
    ELSE Number("REAL", IF p = 1 THEN 5000 ELSE 1251, 1)

\* SUM(QuantityPurchased * Price): NULL over no rows; an integer when every
\* term is one.
SumOfSales(rows) ==
    IF rows = << >> THEN Null
    ELSE Number(IF \A i \in DOMAIN rows : rows[i].Price.class = "INTEGER"
                THEN "INTEGER" ELSE "REAL",
                Sum([i \in DOMAIN rows |-> rows[i].QuantityPurchased * rows[i].Price.n],
                    DOMAIN rows),
                1)

\* a / count: NULL when a is NULL or count is 0; the quotient of two integers
\* is the integer part of the quotient.
Divide(a, count) ==
    IF a.class = "NULL" \/ count = 0 THEN Null
    ELSE IF a.class = "INTEGER"
    THEN Number("INTEGER", 100 * ((a.n \div 100) \div count), 1)
    ELSE Number("REAL", a.n, a.d * count)

\* ROUND(x, 2) of a value that is not negative: the nearest hundredth, a half
\* rounded up.
Round2(x) ==
    IF x.class = "NULL" THEN Null
    ELSE Number("REAL", (2 * x.n + x.d) \div (2 * x.d), 1)

CountDistinct(rows, column) == Cardinality({rows[i][column] : i \in DOMAIN rows})

\* The one row each statement of kpis returns on the rows of sales_transaction.
KpiEvaluate(q, rows) ==
    IF q = total_revenue_query
    THEN [columns |-> TRUE, rows |-> <<SumOfSales(rows)>>]
    ELSE IF q = avg_transaction_value_query
    THEN [columns |-> TRUE,
          rows |-> <<Round2(Divide(SumOfSales(rows), CountDistinct(rows, "TransactionID")))>>]
    ELSE IF q = unique_customers_query
    THEN [columns |-> TRUE, rows |-> <<CountDistinct(rows, "CustomerID")>>]
    ELSE Evaluate(q, rows)

\* The frame get_data_from_db(q) returns to kpis: the cached one, or that of
\* its body.
KpiFetch(q) ==
    IF CacheHit(cache[q]) THEN cache[q][1].df
    ELSE IF db.tables[sales_transaction].present
    THEN KpiEvaluate(q, db.tables[sales_transaction].rows)
    ELSE EmptyDataFrame

\* df[column].iloc[0] if not df.empty and df[column].iloc[0] is not None else
\* 0: the number st.metric shows, hundredths for the two amounts.  (COUNT is
\* never NULL.)
Metric(q, df) ==
    IF df.rows = << >> THEN 0
    ELSE IF q \in {unique_customers_query, unique_products_sold_query} THEN df.rows[1]
    ELSE IF df.rows[1].class = "NULL" THEN 0
    ELSE df.rows[1].n

\* kpis: the four statements, one after the other, each shown by st.metric.
kpis ==
    /\ returned = << >>
    /\ LET statements == <<total_revenue_query, avg_transaction_value_query,
                           unique_customers_query, unique_products_sold_query>>
           dfs == [i \in 1..4 |-> KpiFetch(statements[i])]
       IN  /\ returned' = [i \in 1..4 |->
                              [query |-> statements[i], df |-> dfs[i],
                               metric |-> Metric(statements[i], dfs[i])]]
           /\ Fetched([q \in KpiQueries |->
                          dfs[CHOOSE i \in 1..4 : statements[i] = q]])
    /\ UNCHANGED <<csv, pc, frames, history>>

-----------------------------------------------------------------------------
(* dashboard_app.py, inventory_analytics *)

\* A query text of inventory_analytics: the statement and, in the f-string
\* product_sales_query, the category put into it ("" in the others).
InventoryQuery(name, category) == [name |-> name, category |-> category]

revenue_by_category_query == InventoryQuery("revenue_by_category_query", "")
top_products_by_quantity_query == InventoryQuery("top_products_by_quantity_query", "")
categories_query == InventoryQuery("categories_query", "")
products_with_zero_sales_query == InventoryQuery("products_with_zero_sales_query", "")
products_with_zero_stock_query == InventoryQuery("products_with_zero_stock_query", "")
product_sales_query(selected_category) ==
    InventoryQuery("product_sales_query", selected_category)

\* The category texts of the stores, in the order of ORDER BY Category ASC.
Categories == <<"Clothing", "Electronics">>

CategoryRank(c) == CHOOSE k \in DOMAIN Categories : Categories[k] = c

\* StockLevel at most k.
AtMost(v, k) == v.class # "NULL" /\ v.n <= 100 * k * v.d

\* StockLevel < k: not true of NULL.
LessThan(v, k) == v.class # "NULL" /\ v.n < 100 * k * v.d

\* st JOIN pi ON st.ProductID = pi.ProductID: the pairs of a sale and its
\* product.
Join(sales, products) ==
    {p \in (DOMAIN sales) \X (DOMAIN products) :
        sales[p[1]].ProductID = products[p[2]].ProductID}

\* SUM(st.QuantityPurchased * st.Price) and SUM(st.QuantityPurchased) over
\* the pairs in of.
RevenueOf(sales, of) ==
    Sum([p \in of |-> sales[p[1]].QuantityPurchased * sales[p[1]].Price], of)

QuantityOf(sales, of) == Sum([p \in of |-> sales[p[1]].QuantityPurchased], of)

\* The results a statement of inventory_analytics can have.  ORDER BY an
\* aggregate DESC leaves the order of groups with equal aggregates to the
\* engine; the rows of a statement without ORDER BY come in the order of the
\* table.
InventoryResults(q, sales, products) ==
    LET j == Join(sales, products)
    IN  IF q.name = "revenue_by_category_query"
        THEN LET g == [c \in {products[p[2]].Category : p \in j} |->
                          [TotalRevenue |->
                              RevenueOf(sales, {p \in j : products[p[2]].Category = c})]]
             IN  {[k \in DOMAIN o |->
                      [Category |-> o[k], TotalRevenue |-> g[o[k]].TotalRevenue]] :
                     o \in OrderBy(g, "TotalRevenue", TRUE)}
        ELSE IF q.name = "top_products_by_quantity_query"
        THEN LET g == [c \in {<<products[p[2]].ProductName, products[p[2]].Category>> :
                                 p \in j} |->
                          [TotalQuantitySold |->
                              QuantityOf(sales,
                                  {p \in j : <<products[p[2]].ProductName,
                                               products[p[2]].Category>> = c})]]
             IN  {[k \in DOMAIN Limit(o, 10) |->
                      [ProductName |-> o[k][1], Category |-> o[k][2],
                       TotalQuantitySold |-> g[o[k]].TotalQuantitySold]] :
                     o \in OrderBy(g, "TotalQuantitySold", TRUE)}
        ELSE IF q.name = "categories_query"
        THEN LET g == [c \in {products[i].Category : i \in DOMAIN products} |->
                          [rank |-> CategoryRank(c)]]
             IN  {[k \in DOMAIN o |-> [Category |-> o[k]]] : o \in OrderBy(g, "rank", FALSE)}
        ELSE IF q.name = "products_with_zero_sales_query"
        THEN {SelectSeq(products,
                  LAMBDA r : Cardinality({p \in j : sales[p[1]].ProductID = r.ProductID}) < 15)}
        ELSE IF q.name = "products_with_zero_stock_query"
        THEN {SelectSeq(products, LAMBDA r : LessThan(r.StockLevel, 10))}
        ELSE LET in == {p \in j : products[p[2]].Category = q.category}
                 g == [n \in {products[p[2]].ProductName : p \in in} |->
                          [TotalRevenue |->
                              RevenueOf(sales, {p \in in : products[p[2]].ProductName = n})]]
             IN  {[k \in DOMAIN o |->
                      [ProductName |-> o[k], TotalRevenue |-> g[o[k]].TotalRevenue]] :
                     o \in OrderBy(g, "TotalRevenue", TRUE)}

\* The frames get_data_from_db(q) can return to inventory_analytics: the
\* cached one, or those of its body (the read raises when a table of the
\* statement is not in the file).
InventoryFetch(q) ==
    IF CacheHit(cache[q]) THEN {cache[q][1].df}
    ELSE IF db.tables[sales_transaction].present /\ db.tables[product_inventory].present
    THEN {[columns |-> TRUE, rows |-> r] :
             r \in InventoryResults(q, db.tables[sales_transaction].rows,
                                    db.tables[product_inventory].rows)}
    ELSE {EmptyDataFrame}

\* The entries of the sequence got as a function of their query texts.
ByQuery(got) ==
    [q \in {got[i].query : i \in DOMAIN got} |->
        got[CHOOSE i \in DOMAIN got : got[i].query = q].df]

\* inventory_analytics with the category the user has picked in the
\* selectbox: the two charts, the categories (the page ends there when there
\* are none), the two tables, and the sales of the products of the category.
inventory_analytics ==
    /\ returned = << >>
    /\ \E df_revenue_by_category \in InventoryFetch(revenue_by_category_query) :
       \E df_top_products \in InventoryFetch(top_products_by_quantity_query) :
       \E df_categories \in InventoryFetch(categories_query) :
          LET charts == <<[query |-> revenue_by_category_query,
                           df |-> df_revenue_by_category],
                          [query |-> top_products_by_quantity_query,
                           df |-> df_top_products],
                          [query |-> categories_query, df |-> df_categories]>>
          IN  IF df_categories.rows = << >>
              THEN /\ returned' = charts
                   /\ Fetched(ByQuery(charts))
              ELSE \E df_zero_sales_products \in InventoryFetch(products_with_zero_sales_query) :
                   \E df_zero_stock_products \in InventoryFetch(products_with_zero_stock_query) :
                   \E k \in DOMAIN df_categories.rows :
                      LET selected_category == df_categories.rows[k].Category
                      IN  \E df_product_sales \in
                                 InventoryFetch(product_sales_query(selected_category)) :
                             LET shown == charts \o
                                     <<[query |-> products_with_zero_sales_query,
                                        df |-> df_zero_sales_products],
                                       [query |-> products_with_zero_stock_query,
                                        df |-> df_zero_stock_products],
                                       [query |-> product_sales_query(selected_category),
                                        df |-> df_product_sales]>>
                             IN  /\ returned' = shown
                                 /\ Fetched(ByQuery(shown))
    /\ UNCHANGED <<csv, pc, frames, history>>

-----------------------------------------------------------------------------
(* Specifications *)

EmptyCsv == [customers |-> << >>, products |-> << >>, sales |-> << >>, missing |-> {}]

NoSnapshot == [valid |-> FALSE, input |-> EmptyCsv, db |-> NoDb, repeated |-> FALSE]

\* One run of database.py on any input within the bounds, DB_FILE not yet there.
InitPipeline ==
    /\ csv \in RawFiles \cup {[EmptyCsv EXCEPT !.missing = {f}] : f \in {"customers", "sales"}}
    /\ pc = [step |-> "start", table |-> 0]
    /\ df_customers_cleaned = << >>
    /\ df_products_cleaned = << >>
    /\ df_sales_cleaned = << >>
    /\ db = NoDb
    /\ cache = [q \in Queries |-> << >>]
    /\ returned = << >>
    /\ unclosed = 0
    /\ before = NoDb.tables
    /\ snapshot = NoSnapshot

NextPipeline ==
    \/ LoadCsv
    \/ CleanCustomers
    \/ CleanProducts
    \/ CleanSales
    \/ ReconcilePrices
    \/ EnsureTables
    \/ ToSqlDrop
    \/ ToSqlCreate
    \/ ToSqlInsert
    \/ CommitClose

SpecPipeline == InitPipeline /\ [][NextPipeline]_vars

\* The files of the deployment: one customer, one product, at most
\* MaxDeployedSales sales of it or of a product not in the inventory; or such
\* files with a date the format rejects, or without the sales file.
DeployedCustomers == <<[CustomerID |-> 1, Location |-> <<"P">>, JoinDate |-> <<15, 3, 23>>]>>

DeployedFiles ==
    UNION {
        [customers : {DeployedCustomers},
         products : {<<[ProductID |-> 1, Price |-> 12]>>},
         sales : Tuples([TransactionID : {1}, ProductID : ProductIDs, Price : {10},
                         TransactionDate : {<<15, 3, 23>>}], s),
         missing : {{}}]
        : s \in 0..MaxDeployedSales }
    \cup {[customers |-> DeployedCustomers,
           products |-> <<[ProductID |-> 1, Price |-> 10]>>,
           sales |-> <<[TransactionID |-> 1, ProductID |-> 1, Price |-> 10,
                       TransactionDate |-> <<31, 2, 23>>]>>,
           missing |-> {}],
          [customers |-> DeployedCustomers,
           products |-> <<[ProductID |-> 1, Price |-> 10]>>,
           sales |-> << >>,
           missing |-> {"sales"}]}

\* The files are edited between runs.
ReplaceFiles ==
    /\ Finished
    /\ csv' \in DeployedFiles \ {csv}
    /\ UNCHANGED <<pc, frames, db, dashboard, history>>

Init ==
    /\ csv \in DeployedFiles
    /\ pc = [step |-> "idle", table |-> 0]
    /\ df_customers_cleaned = << >>
    /\ df_products_cleaned = << >>
    /\ df_sales_cleaned = << >>
    /\ db = NoDb
    /\ cache = [q \in Queries |-> << >>]
    /\ returned = << >>
    /\ unclosed = 0
    /\ before = NoDb.tables
    /\ snapshot = NoSnapshot

Next ==
    \/ ReplaceFiles
    \/ StartRun
    \/ LoadCsv
    \/ CleanCustomers
    \/ CleanProducts
    \/ CleanSales
    \/ ReconcilePrices
    \/ EnsureTables
    \/ ToSqlDrop
    \/ ToSqlCreate
    \/ ToSqlInsert
    \/ WriteFails
    \/ CommitClose
    \/ Query
    \/ Render
    \/ Collect

Spec == Init /\ [][Next]_vars

\* The purchases of one customer: sales without their keys.
Sale(date, quantity, price) ==
    [TransactionDate |-> date, QuantityPurchased |-> quantity, Price |-> price]

PurchaseHistories ==
    << <<Sale(<<2022, 12, 31>>, 1, 12)>>,
       <<Sale(<<2022, 12, 31>>, 1, 10)>>,
       <<Sale(<<2023, 1, 2>>, 1, 10)>>,
       <<Sale(<<2023, 3, 1>>, 2, 10)>>,
       <<Sale(<<2022, 12, 31>>, 1, 10), Sale(<<2023, 1, 2>>, 1, 10)>>,
       <<Sale(<<2023, 3, 1>>, 1, 12), Sale(<<2022, 12, 31>>, 2, 12)>>,
       <<Sale(<<2022, 12, 31>>, 1, 10), Sale(<<2023, 1, 2>>, 1, 10),
         Sale(<<2023, 3, 1>>, 1, 10)>>,
       <<Sale(<<2022, 12, 31>>, 1, 12), Sale(<<2022, 12, 31>>, 1, 12),
         Sale(<<2023, 1, 2>>, 1, 12)>> >>

RECURSIVE SalesOf(_, _)
SalesOf(h, c) ==
    IF c > Len(h) THEN << >>
    ELSE [k \in DOMAIN PurchaseHistories[h[c]] |->
             [CustomerID |-> c, sale |-> PurchaseHistories[h[c]][k]]]
         \o SalesOf(h, c + 1)

\* The rows of sales_transaction after a run on files in which customer c made
\* the purchases PurchaseHistories[h[c]]: the rows of the file, each with its
\* own TransactionID, dates as the script writes them.
StoredSales(h) ==
    [i \in DOMAIN SalesOf(h, 1) |->
        [TransactionID |-> i,
         CustomerID |-> SalesOf(h, 1)[i].CustomerID,
         QuantityPurchased |-> SalesOf(h, 1)[i].sale.QuantityPurchased,
         Price |-> SalesOf(h, 1)[i].sale.Price,
         TransactionDate |-> SalesOf(h, 1)[i].sale.TransactionDate]]

\* The number of pairs of rows of t with the same value of key.
TiedPairs(t, key) ==
    Cardinality({p \in SUBSET DOMAIN t :
                    Cardinality(p) = 2 /\ \A a, b \in p : t[a][key] = t[b][key]})

\* The assignments of histories to customers 1..n.  The model's choice among
\* tied rows does not depend on the CustomerID, so of the stores that differ
\* by renaming customers one is taken; and no metric ties more than
\* MaxTiedPairs pairs of customers.
Populations ==
    UNION {{h \in [1..n -> DOMAIN PurchaseHistories] :
               /\ \A c \in 1..(n - 1) : h[c] <= h[c + 1]
               /\ \A key \in {"RecencyInDays", "Frequency", "MonetaryValue"} :
                     TiedPairs(CustomerRFM(StoredSales(h)), key) <= MaxTiedPairs}
           : n \in 0..MaxRfmCustomers}

\* DB_FILE as a finished run leaves it (to_sql has replaced the three tables).
StoreOf(sales) ==
    [exists |-> TRUE,
     tables |-> [t \in 1..3 |->
                    [present |-> TRUE, primary_key |-> FALSE,
                     rows |-> IF t = sales_transaction THEN sales ELSE << >>]]]

\* The dashboard's RFM page on a store no run changes meanwhile: DB_FILE not
\* yet made by any run, or as a run left it.
InitRfm ==
    /\ csv = EmptyCsv
    /\ db \in {NoDb} \cup {StoreOf(StoredSales(h)) : h \in Populations}
    /\ pc = [step |-> IF db.exists THEN "done" ELSE "idle", table |-> 0]
    /\ df_customers_cleaned = << >>
    /\ df_products_cleaned = << >>
    /\ df_sales_cleaned = << >>
    /\ cache = [q \in {rfm_query} |-> << >>]
    /\ returned = << >>
    /\ unclosed = 0
    /\ before = db.tables
    /\ snapshot = NoSnapshot

NextRfm ==
    \/ rfm_analysis
    \/ Render

SpecRfm == InitRfm /\ [][NextRfm]_vars

\* The years a where_clause can name: those of the purchase histories.
TrendYears == {2022, 2023}

TrendQueries ==
    {years_query}
    \cup {QueryText(name, w) :
             name \in {"monthly_sales_query", "top_months_revenue_query",
                       "top_days_revenue_query", "top_months_transactions_query",
                       "top_days_transactions_query"},
             w \in {NoWhere} \cup {[filtered |-> TRUE, years |-> ys] :
                                     ys \in SUBSET TrendYears \ {{}}}}

\* The dashboard's sales page on a store no run changes meanwhile: DB_FILE not
\* yet made by any run, or as a run left it, with the sales of at most
\* MaxTrendCustomers customers.
InitTrend ==
    /\ csv = EmptyCsv
    /\ db \in {NoDb} \cup {StoreOf(StoredSales(h)) :
                              h \in {h \in Populations : Len(h) <= MaxTrendCustomers}}
    /\ pc = [step |-> IF db.exists THEN "done" ELSE "idle", table |-> 0]
    /\ df_customers_cleaned = << >>
    /\ df_products_cleaned = << >>
    /\ df_sales_cleaned = << >>
    /\ cache = [q \in TrendQueries |-> << >>]
    /\ returned = << >>
    /\ unclosed = 0
    /\ before = db.tables
    /\ snapshot = NoSnapshot

NextTrend ==
    \/ sales_trend
    \/ Render

SpecTrend == InitTrend /\ [][NextTrend]_vars

\* The rows of sales_transaction after a run on a sales file of n rows whose
\* Price column read_csv gave the dtype: each row with its own TransactionID.
KpiSales(dtype, n) ==
    {[i \in 1..n |->
         [TransactionID |-> i, CustomerID |-> r[i].CustomerID,
          ProductID |-> r[i].ProductID,
          QuantityPurchased |-> r[i].QuantityPurchased,
          Price |-> StoredPrice(dtype, r[i].ProductID)]] :
        r \in [1..n -> [CustomerID : CustomerIDs, ProductID : ProductIDs,
                        QuantityPurchased : {1, 2}]]}

\* The dashboard's KPI page on a store no run changes meanwhile: DB_FILE not
\* yet made by any run, or as a run left it, with at most MaxKpiSales sales.
InitKpi ==
    /\ csv = EmptyCsv
    /\ db \in {NoDb} \cup {StoreOf(sales) :
                              sales \in UNION {KpiSales(dtype, n) :
                                                  dtype \in {"int64", "float64"},
                                                  n \in 0..MaxKpiSales}}
    /\ pc = [step |-> IF db.exists THEN "done" ELSE "idle", table |-> 0]
    /\ df_customers_cleaned = << >>
    /\ df_products_cleaned = << >>
    /\ df_sales_cleaned = << >>
    /\ cache = [q \in KpiQueries |-> << >>]
    /\ returned = << >>
    /\ unclosed = 0
    /\ before = db.tables
    /\ snapshot = NoSnapshot

NextKpi ==
    \/ kpis
    \/ Render
    \/ Collect

SpecKpi == InitKpi /\ [][NextKpi]_vars

\* The StockLevel to_sql stores: NULL for a NaN of the frame (a blank cell of
\* the file); the column is REAL when the frame's column has a NaN (float64)
\* and INTEGER otherwise.
StoredStock(level, dtype) ==
    IF level = NaNPrice THEN Null
    ELSE Number(IF dtype = "float64" THEN "REAL" ELSE "INTEGER", 100 * level, 1)

StockLevels == {5, 9, 10, 11, NaNPrice}

\* The rows of product_inventory after a run on a product file of n rows, each
\* with its own ProductID.
StoredProducts(n) ==
    {[i \in 1..n |->
         [ProductID |-> i, ProductName |-> r[i].ProductName,
          Category |-> r[i].Category,
          StockLevel |-> StoredStock(r[i].StockLevel,
                                     IF \E k \in 1..n : r[k].StockLevel = NaNPrice
                                     THEN "float64" ELSE "int64")]] :
        r \in [1..n -> [ProductName : {"Shirt", "Phone"},
                        Category : {Categories[k] : k \in DOMAIN Categories},
                        StockLevel : StockLevels]]}

\* The rows of sales_transaction after a run with n products in the
\* inventory: sales of these products at the price of the product.
InventorySales(n) ==
    UNION {[1..m -> {[TransactionID |-> t, ProductID |-> p, QuantityPurchased |-> 1,
                      Price |-> IF p = 1 THEN 10 ELSE 12] : t \in 1..m, p \in 1..n}]
           : m \in 0..MaxInventorySales}

\* DB_FILE as a finished run leaves it, with n products in the inventory.
InventoryStores(n) ==
    {[exists |-> TRUE,
      tables |-> [t \in 1..3 |->
                     [present |-> TRUE, primary_key |-> FALSE,
                      rows |-> IF t = sales_transaction THEN sales
                               ELSE IF t = product_inventory THEN products
                               ELSE << >>]]] :
        products \in StoredProducts(n),
        sales \in {x \in InventorySales(n) :
                      \A i \in DOMAIN x : x[i].TransactionID = i}}

InventoryQueries ==
    {revenue_by_category_query, top_products_by_quantity_query, categories_query,
     products_with_zero_sales_query, products_with_zero_stock_query}
    \cup {product_sales_query(Categories[k]) : k \in DOMAIN Categories}

\* The dashboard's product page on a store no run changes meanwhile: DB_FILE
\* not yet made by any run, or as a run left it, with at most
\* MaxInventoryProducts products.
InitInventory ==
    /\ csv = EmptyCsv
    /\ \E n \in 0..MaxInventoryProducts : db \in {NoDb} \cup InventoryStores(n)
    /\ pc = [step |-> IF db.exists THEN "done" ELSE "idle", table |-> 0]
    /\ df_customers_cleaned = << >>
    /\ df_products_cleaned = << >>
    /\ df_sales_cleaned = << >>
    /\ cache = [q \in InventoryQueries |-> << >>]
    /\ returned = << >>
    /\ unclosed = 0
    /\ before = db.tables
    /\ snapshot = NoSnapshot

NextInventory ==
    \/ inventory_analytics
    \/ Render
    \/ Collect

SpecInventory == InitInventory /\ [][NextInventory]_vars

-----------------------------------------------------------------------------
(* Properties of one run (SpecPipeline) *)

Stored(t) == db.tables[t].rows

\* The raw row that is the first of its key in its file.
FirstOfKey(keys, k) == \A j \in 1..(k - 1) : keys[j] # keys[k]

RawCustomerKeys == [k \in DOMAIN csv.customers |-> csv.customers[k].CustomerID]
RawProductKeys == [k \in DOMAIN csv.products |-> csv.products[k].ProductID]
RawSalesKeys == [k \in DOMAIN csv.sales |-> csv.sales[k].TransactionID]

HasDuplicate(keys) == \E i, j \in DOMAIN keys : i < j /\ keys[i] = keys[j]

InInventory(pid) ==
    \E j \in DOMAIN Stored(product_inventory) : Stored(product_inventory)[j].ProductID = pid

\* C1: after a complete run, every row of sales_transaction whose ProductID is
\* the ProductID of a row of product_inventory has that row's Price, also when
\* duplicate TransactionID rows were removed before the reconciliation.
C1_ReconciliationInvariant ==
    At("done") =>
        \A i \in DOMAIN Stored(sales_transaction) :
            \A j \in DOMAIN Stored(product_inventory) :
                Stored(sales_transaction)[i].ProductID = Stored(product_inventory)[j].ProductID
                    => Stored(sales_transaction)[i].Price = Stored(product_inventory)[j].Price

\* A complete run that removed a duplicate TransactionID row and overwrote the
\* price of a sale with the price of its product.
C1_Witness ==
    /\ At("done")
    /\ HasDuplicate(RawSalesKeys)
    /\ Len(Stored(sales_transaction)) < Len(csv.sales)
    /\ \E i \in DOMAIN Stored(sales_transaction) : \E k \in DOMAIN csv.sales :
          /\ FirstOfKey(RawSalesKeys, k)
          /\ csv.sales[k].TransactionID = Stored(sales_transaction)[i].TransactionID
          /\ InInventory(csv.sales[k].ProductID)
          /\ Stored(sales_transaction)[i].Price # csv.sales[k].Price

\* C2: a sale whose ProductID is the ProductID of no cleaned product keeps its
\* original Price in the output, and such a sale does not abort the run.
C2_UnmatchedKeepsPrice ==
    /\ At("done") =>
          \A i \in DOMAIN Stored(sales_transaction) :
              ~InInventory(Stored(sales_transaction)[i].ProductID) =>
                  \E k \in DOMAIN csv.sales :
                      /\ FirstOfKey(RawSalesKeys, k)
                      /\ csv.sales[k].TransactionID = Stored(sales_transaction)[i].TransactionID
                      /\ csv.sales[k].Price = Stored(sales_transaction)[i].Price
    /\ At("crashed") =>
          \/ \E k \in DOMAIN csv.customers : ~Parses(csv.customers[k].JoinDate)
          \/ \E k \in DOMAIN csv.sales : ~Parses(csv.sales[k].TransactionDate)
          \/ HasDuplicate(RawSalesKeys)

KeysOf(t) ==
    IF t = customer_profiles
    THEN [i \in DOMAIN Stored(t) |-> Stored(t)[i].CustomerID]
    ELSE IF t = product_inventory
    THEN [i \in DOMAIN Stored(t) |-> Stored(t)[i].ProductID]
    ELSE [i \in DOMAIN Stored(t) |-> Stored(t)[i].TransactionID]

\* C3: after a run no table holds two rows with the same primary-key value,
\* whatever duplicates the raw files held.
C3_KeyUniqueness ==
    At("done") => \A t \in 1..3 : ~HasDuplicate(KeysOf(t))

\* A complete run on files of which one held a duplicate key; the run stored
\* fewer rows than the files held.
C3_Witness ==
    /\ At("done")
    /\ HasDuplicate(RawCustomerKeys) \/ HasDuplicate(RawProductKeys) \/ HasDuplicate(RawSalesKeys)
    /\ Len(Stored(customer_profiles)) + Len(Stored(product_inventory))
          + Len(Stored(sales_transaction))
          < Len(csv.customers) + Len(csv.products) + Len(csv.sales)
    /\ \E t \in 1..3 : Len(Stored(t)) > 1

\* The frame df holds, of the raw rows with the key column rawkeys, exactly the
\* first row of each key, in file order (the index label of a frame row is the
\* file position of its raw row, minus one).
FirstSeenWins(df, dfkeys, rawkeys) ==
    /\ \A i \in DOMAIN df :
          /\ df[i].idx + 1 \in DOMAIN rawkeys
          /\ rawkeys[df[i].idx + 1] = dfkeys[i]
          /\ FirstOfKey(rawkeys, df[i].idx + 1)
    /\ \A k \in DOMAIN rawkeys : \E i \in DOMAIN df : dfkeys[i] = rawkeys[k]
    /\ \A i, j \in DOMAIN df : i < j => df[i].idx < df[j].idx

\* C4: duplicate-key removal is first-seen-wins in each of the three frames:
\* the survivor of a key is the first raw row of that key, with that row's
\* values (the Price of a sale as it is before the reconciliation), later rows
\* of the key are dropped and the survivors keep their file order.
C4_FirstSeenWins ==
    /\ At("customers_cleaned") =>
          /\ FirstSeenWins(df_customers_cleaned,
                           [i \in DOMAIN df_customers_cleaned |->
                               df_customers_cleaned[i].CustomerID],
                           RawCustomerKeys)
          /\ \A i \in DOMAIN df_customers_cleaned :
                df_customers_cleaned[i].Location =
                    Fillna(ReadCsvText(csv.customers[df_customers_cleaned[i].idx + 1].Location))
    /\ At("products_cleaned") =>
          /\ FirstSeenWins(df_products_cleaned,
                           [i \in DOMAIN df_products_cleaned |->
                               df_products_cleaned[i].ProductID],
                           RawProductKeys)
          /\ \A i \in DOMAIN df_products_cleaned :
                df_products_cleaned[i].Price =
                    csv.products[df_products_cleaned[i].idx + 1].Price
    /\ At("sales_cleaned") =>
          /\ FirstSeenWins(df_sales_cleaned,
                           [i \in DOMAIN df_sales_cleaned |->
                               df_sales_cleaned[i].TransactionID],
                           RawSalesKeys)
          /\ \A i \in DOMAIN df_sales_cleaned :
                /\ df_sales_cleaned[i].Price = csv.sales[df_sales_cleaned[i].idx + 1].Price
                /\ df_sales_cleaned[i].ProductID =
                       csv.sales[df_sales_cleaned[i].idx + 1].ProductID

\* Two raw sales of one TransactionID priced 10 then 12 left one row of that
\* TransactionID, priced 10.
C4_Witness ==
    /\ At("sales_cleaned")
    /\ Len(csv.sales) = 2
    /\ csv.sales[1].TransactionID = csv.sales[2].TransactionID
    /\ csv.sales[1].Price = 10
    /\ csv.sales[2].Price = 12
    /\ Len(df_sales_cleaned) = 1
    /\ df_sales_cleaned[1].Price = 10

\* A text that is empty after trimming.
IsBlank(text) == \A i \in DOMAIN text : text[i] = " "

\* C5: after a run every customer_profiles row has a Location that is not null
\* and not blank; a raw Location that is empty or blank became "Unknown", any
\* other raw Location is kept.
C5_LocationNonBlank ==
    At("done") =>
        \A i \in DOMAIN Stored(customer_profiles) :
            /\ Stored(customer_profiles)[i].Location # NaN
            /\ ~IsBlank(Stored(customer_profiles)[i].Location)
            /\ \E k \in DOMAIN csv.customers :
                  /\ FirstOfKey(RawCustomerKeys, k)
                  /\ csv.customers[k].CustomerID = Stored(customer_profiles)[i].CustomerID
                  /\ Stored(customer_profiles)[i].Location =
                         IF IsBlank(csv.customers[k].Location)
                         THEN Unknown
                         ELSE csv.customers[k].Location

HasBadDate ==
    \/ \E k \in DOMAIN csv.customers : ~Parses(csv.customers[k].JoinDate)
    \/ \E k \in DOMAIN csv.sales : ~Parses(csv.sales[k].TransactionDate)

\* C7: a date the format rejects aborts the run before the store is written,
\* and nothing else in the cleaning aborts it: with missing Locations,
\* duplicate keys or price mismatches the run goes on to the store write.
C7_OnlyDatesAbort ==
    /\ HasBadDate => pc.step \in {"start", "loaded", "customers_cleaned",
                                  "products_cleaned", "crashed"}
    /\ At("crashed") => HasBadDate

-----------------------------------------------------------------------------
(* Properties of the store across runs and of the dashboard's reads (Spec) *)

\* C6: a run that finishes on the input of the last finished run leaves the
\* store as that run left it: same tables, same rows in the same order.
C6_Idempotence ==
    [][(At("commit") /\ snapshot.valid /\ snapshot.input = csv /\ pc'.step = "done")
          => db' = snapshot.db]_vars

\* Two runs on the same input have finished and the store holds a sale.
C6_Witness ==
    /\ At("done")
    /\ snapshot.repeated
    /\ Stored(sales_transaction) # << >>
    /\ db = snapshot.db

\* C8: a run that aborts leaves the three tables as the last finished run
\* produced them.
C8_StoreIsLastSnapshot ==
    (snapshot.valid /\ pc.step \in {"crashed", "exited"}) => db.tables = snapshot.db.tables

Writing == pc.step \in {"drop", "create", "insert"}

\* C9: a query that reads the store while the script replaces the tables gets
\* the result on the complete previous rows of its table or on the complete
\* new rows, never that of a missing, empty or partly filled table.
C9_ReaderSeesWholeTable ==
    [][\A q \in Queries :
          (Writing /\ ~CacheHit(cache[q]) /\ GetData(q)) =>
              returned'[1].df \in {Evaluate(q, before[TableOf(q)].rows),
                                   Evaluate(q, FrameOf(TableOf(q)))}]_vars

\* C10: a query issued after a finished run returns the result on the store as
\* that run left it, never a result cached from an earlier snapshot (stated of
\* the entries that were computed from the tables a finished run left, not
\* from a failed read or during a run).
C10_CacheInvalidatedByRun ==
    [][\A q \in Queries :
          (At("done") /\ GetData(q)
             /\ (CacheHit(cache[q]) => cache[q][1].settled /\ cache[q][1].df.columns))
              => returned'[1].df = ReadSql(q, db)]_vars

-----------------------------------------------------------------------------
(* Properties of rfm_query (SpecRfm) *)

\* The frame the RFM page holds, when the read gave one.
RfmRows == returned[1].df.rows

RfmReturned == returned # << >> /\ returned[1].df.columns

SalesRows == db.tables[sales_transaction].rows

Customers == {SalesRows[i].CustomerID : i \in DOMAIN SalesRows}

\* C12: on a store with at least one transaction the RFM result has exactly
\* one row per customer with a transaction, and R_Score, F_Score and M_Score of
\* every row are in 1..5.
C12_ScoreRange ==
    (RfmReturned /\ SalesRows # << >>) =>
        /\ {RfmRows[k].CustomerID : k \in DOMAIN RfmRows} = Customers
        /\ Len(RfmRows) = Cardinality(Customers)
        /\ \A k \in DOMAIN RfmRows :
              /\ RfmRows[k].R_Score \in 1..5
              /\ RfmRows[k].F_Score \in 1..5
              /\ RfmRows[k].M_Score \in 1..5

\* The result of a store of five customers or more, one of them with several
\* transactions, in which the scores 1 and 5 are both given.
C12_Witness ==
    /\ RfmReturned
    /\ Len(RfmRows) >= 5
    /\ Len(SalesRows) > Len(RfmRows)
    /\ \E k \in DOMAIN RfmRows : RfmRows[k].F_Score = 1
    /\ \E k \in DOMAIN RfmRows : RfmRows[k].F_Score = 5

\* The customers of the result whose score is g.
Group(score, g) == {k \in DOMAIN RfmRows : RfmRows[k][score] = g}

\* The scores are the quintiles of the customers sorted by the metric (sign 1:
\* ascending, -1: descending), ties in the order of the customers' rows.
StableQuintiles(metric, sign, score) ==
    /\ \A a, b \in DOMAIN RfmRows :
          sign * RfmRows[a][metric] < sign * RfmRows[b][metric]
              => RfmRows[a][score] <= RfmRows[b][score]
    /\ \A g \in 1..5 : Group(score, g) # {}
    /\ \A g, h \in 1..5 :
          Cardinality(Group(score, g)) - Cardinality(Group(score, h)) \in {-1, 0, 1}
    /\ \A a, b \in DOMAIN RfmRows :
          (/\ RfmRows[a][metric] = RfmRows[b][metric]
           /\ RfmRows[a].CustomerID < RfmRows[b].CustomerID)
              => RfmRows[a][score] <= RfmRows[b][score]

\* C13: each score cuts the customers, sorted by the metric, into 5 contiguous
\* groups numbered 1 to 5, all non-empty and of sizes that differ by at most
\* one, the customers tied on the metric in their original order.
C13_StableQuintiles ==
    (RfmReturned /\ SalesRows # << >>) =>
        /\ StableQuintiles("RecencyInDays", -1, "R_Score")
        /\ StableQuintiles("Frequency", 1, "F_Score")
        /\ StableQuintiles("MonetaryValue", 1, "M_Score")

\* C14: of two rows of the result, the one with the lower Recency has no lower
\* R_Score, the one with the higher Frequency no lower F_Score, the one with
\* the higher MonetaryValue no lower M_Score.
C14_ScoreDirection ==
    RfmReturned =>
        \A a, b \in DOMAIN RfmRows :
            /\ RfmRows[a].RecencyInDays < RfmRows[b].RecencyInDays
                  => RfmRows[a].R_Score >= RfmRows[b].R_Score
            /\ RfmRows[a].Frequency > RfmRows[b].Frequency
                  => RfmRows[a].F_Score >= RfmRows[b].F_Score
            /\ RfmRows[a].MonetaryValue > RfmRows[b].MonetaryValue
                  => RfmRows[a].M_Score >= RfmRows[b].M_Score

\* Two customers of the result: the first more recent, more frequent and of
\* higher value than the second, and scored higher on each.
C14_Witness ==
    /\ RfmReturned
    /\ \E a, b \in DOMAIN RfmRows :
          /\ RfmRows[a].RecencyInDays < RfmRows[b].RecencyInDays
          /\ RfmRows[a].R_Score > RfmRows[b].R_Score
          /\ RfmRows[a].Frequency > RfmRows[b].Frequency
          /\ RfmRows[a].F_Score > RfmRows[b].F_Score
          /\ RfmRows[a].MonetaryValue > RfmRows[b].MonetaryValue
          /\ RfmRows[a].M_Score > RfmRows[b].M_Score

\* The days from 1 January of year 1 to the date <<yyyy, mm, dd>>, counted
\* month by month.
RECURSIVE DaysBeforeMonth(_, _)
DaysBeforeMonth(m, y) ==
    IF m = 1 THEN 0 ELSE DaysInMonth(m - 1, y) + DaysBeforeMonth(m - 1, y)

DayNumber(t) ==
    365 * (t[1] - 1) + (t[1] - 1) \div 4 - (t[1] - 1) \div 100 + (t[1] - 1) \div 400
        + DaysBeforeMonth(t[2], t[1]) + t[3]

\* The transactions of sales_transaction from row i on that are customer c's.
RECURSIVE Spent(_, _)
Spent(c, i) ==
    IF i > Len(SalesRows) THEN 0
    ELSE (IF SalesRows[i].CustomerID = c
          THEN SalesRows[i].QuantityPurchased * SalesRows[i].Price ELSE 0) + Spent(c, i + 1)

\* C15: Recency of a row is the number of days from its customer's latest
\* TransactionDate to the latest TransactionDate of the store (never negative,
\* 0 for some customer), Frequency the number of the customer's distinct
\* TransactionIDs, MonetaryValue the sum of QuantityPurchased x Price over the
\* customer's transactions; the rows are in descending order of MonetaryValue.
C15_Metrics ==
    (RfmReturned /\ SalesRows # << >>) =>
        /\ \A k \in DOMAIN RfmRows :
              LET own == {i \in DOMAIN SalesRows :
                             SalesRows[i].CustomerID = RfmRows[k].CustomerID}
              IN  /\ \E i \in own : \E j \in DOMAIN SalesRows :
                        /\ \A l \in own : DayNumber(SalesRows[l].TransactionDate)
                                              <= DayNumber(SalesRows[i].TransactionDate)
                        /\ \A l \in DOMAIN SalesRows :
                                DayNumber(SalesRows[l].TransactionDate)
                                    <= DayNumber(SalesRows[j].TransactionDate)
                        /\ RfmRows[k].RecencyInDays =
                               DayNumber(SalesRows[j].TransactionDate)
                                   - DayNumber(SalesRows[i].TransactionDate)
                  /\ RfmRows[k].RecencyInDays >= 0
                  /\ RfmRows[k].Frequency =
                         Cardinality({SalesRows[i].TransactionID : i \in own})
                  /\ RfmRows[k].MonetaryValue = Spent(RfmRows[k].CustomerID, 1)
        /\ \E k \in DOMAIN RfmRows : RfmRows[k].RecencyInDays = 0
        /\ \A a, b \in DOMAIN RfmRows :
              a < b => RfmRows[a].MonetaryValue >= RfmRows[b].MonetaryValue

\* The result of a store in which a customer's latest purchase is not the last
\* of their rows and lies 58 days (2 January to 1 March 2023) before the
\* store's latest; the customers are not in the order of their CustomerIDs.
C15_Witness ==
    /\ RfmReturned
    /\ \E k \in DOMAIN RfmRows : RfmRows[k].RecencyInDays = 58 /\ RfmRows[k].Frequency = 3
    /\ \E k \in DOMAIN RfmRows : RfmRows[k].RecencyInDays = 0 /\ RfmRows[k].Frequency = 2
    /\ \E a, b \in DOMAIN RfmRows :
          /\ a < b
          /\ RfmRows[a].CustomerID > RfmRows[b].CustomerID
          /\ RfmRows[a].MonetaryValue > RfmRows[b].MonetaryValue

-----------------------------------------------------------------------------
(* Properties of sales_trend (SpecTrend) *)

\* The sales page has run up to the multiselect and holds the user's choice.
Picked == Len(returned) >= 2 /\ "selected_years" \in DOMAIN returned[2]

\* C16: when the sales page is run with no year selected, none of the trend
\* and top-N statements is executed and the page gets the warning to select a
\* year, which is no frame: neither the unfiltered result nor an empty table.
C16_EmptyYearFilter ==
    (Picked /\ returned[2].selected_years = {}) =>
        /\ Len(returned) = 3
        /\ DOMAIN returned[3] = {"warning"}
        /\ \A q \in DOMAIN cache : CacheHit(cache[q]) => q = years_query

\* The page was run with no year selected on a store with sales of 2023.
C16_Witness ==
    /\ Picked
    /\ returned[2].selected_years = {}
    /\ \E i \in DOMAIN SalesRows : SalesRows[i].TransactionDate[1] = 2023
    /\ CacheHit(cache[years_query])

\* The sum of QuantityPurchased x Price over the rows of S from row i on.
RECURSIVE Revenue(_, _)
Revenue(S, i) ==
    IF i > Len(SalesRows) THEN 0
    ELSE (IF i \in S THEN SalesRows[i].QuantityPurchased * SalesRows[i].Price ELSE 0)
         + Revenue(S, i + 1)

\* The transactions of the month <<yyyy, mm>>.
InMonth(p) ==
    {i \in DOMAIN SalesRows :
        SalesRows[i].TransactionDate[1] = p[1] /\ SalesRows[i].TransactionDate[2] = p[2]}

\* The year is selected: picked itself, or through 'All Years'.
Selected(y) ==
    AllYears \in returned[2].selected_years \/ YearOption(y) \in returned[2].selected_years

\* C17: with a non-empty selection of years the monthly trend has exactly one
\* row per year-month with a transaction of a selected year, with the sum of
\* QuantityPurchased x Price and the number of distinct TransactionIDs of that
\* month, in ascending order of the period; no transaction of another year
\* contributes.
C17_MonthlyTrend ==
    (Picked /\ returned[2].selected_years # {} /\ returned[3].df.columns) =>
        LET rows == returned[3].df.rows
        IN  /\ returned[3].query.name = "monthly_sales_query"
            /\ \A i \in DOMAIN SalesRows :
                  Selected(SalesRows[i].TransactionDate[1]) =>
                      \E k \in DOMAIN rows :
                          rows[k].SalesPeriod = <<SalesRows[i].TransactionDate[1],
                                                  SalesRows[i].TransactionDate[2]>>
            /\ \A k \in DOMAIN rows :
                  /\ Selected(rows[k].SalesPeriod[1])
                  /\ InMonth(rows[k].SalesPeriod) # {}
                  /\ rows[k].TotalMonthlyRevenue = Revenue(InMonth(rows[k].SalesPeriod), 1)
                  /\ rows[k].NumberOfMonthlyTransactions =
                         Cardinality({SalesRows[i].TransactionID :
                                         i \in InMonth(rows[k].SalesPeriod)})
            /\ \A a, b \in DOMAIN rows :
                  a < b => 12 * rows[a].SalesPeriod[1] + rows[a].SalesPeriod[2]
                               < 12 * rows[b].SalesPeriod[1] + rows[b].SalesPeriod[2]

\* The trend of 2023 alone on a store with a sale of 2022: two months of 2023,
\* one of them with two transactions.
C17_Witness ==
    /\ Picked
    /\ returned[2].selected_years = {YearOption(2023)}
    /\ \E i \in DOMAIN SalesRows : SalesRows[i].TransactionDate[1] = 2022
    /\ returned[3].df.columns
    /\ Len(returned[3].df.rows) = 2
    /\ \E k \in DOMAIN returned[3].df.rows :
          returned[3].df.rows[k].NumberOfMonthlyTransactions = 2

-----------------------------------------------------------------------------
(* Properties of get_data_from_db *)

\* C18: the value get_data_from_db returns when the store cannot be read (the
\* read raises) differs from the value it returns when the query succeeds
\* with zero rows: the first is a frame without columns, the second has the
\* columns of the query.  (SpecRfm: rfm_query gives zero rows on an empty
\* sales_transaction and raises when the table is not there.)
C18_FailureIsNotEmptyResult ==
    returned # << >> =>
        /\ ~db.tables[sales_transaction].present => ~returned[1].df.columns
        /\ db.tables[sales_transaction].present => returned[1].df.columns
        /\ (db.tables[sales_transaction].present /\ SalesRows = << >>) =>
               /\ returned[1].df.rows = << >>
               /\ returned[1].df # EmptyDataFrame

\* The query succeeded with zero rows.
C18_Witness ==
    /\ returned # << >>
    /\ db.tables[sales_transaction].present
    /\ returned[1].df.columns
    /\ returned[1].df.rows = << >>

\* C19: a query leaves DB_FILE as it was, in any state of the store, and does
\* not create it.
C19_QueriesReadOnly ==
    [][Query => db' = db]_vars

\* The script holds its connection from sqlite3.connect to conn.close().
ScriptConnected == pc.step \in {"drop", "create", "insert", "commit"}

\* C20: after a query or a run of the script has ended, with or without an
\* error, the connection it opened has been closed.
C20_ConnectionsReleased ==
    /\ unclosed = 0
    /\ Finished => ~ScriptConnected

-----------------------------------------------------------------------------
(* The schema database.py leaves *)

\* C21: after a run of the script each of the three tables is there with the
\* schema of its CREATE TABLE statement, whose first column is declared
\* INTEGER PRIMARY KEY, and holds exactly the rows of its cleaned frame,
\* nothing of what the table held before.
C21_FixedSchemaAndRows ==
    At("done") =>
        \A t \in 1..3 :
            /\ db.tables[t].present
            /\ db.tables[t].primary_key
            /\ db.tables[t].rows = FrameOf(t)

-----------------------------------------------------------------------------
(* Properties of kpis (SpecKpi) *)

\* The page has shown its four metrics.
KpisShown == Len(returned) = 4 /\ "metric" \in DOMAIN returned[1]

\* The revenue of the store in hundredths: the sum of QuantityPurchased x
\* Price over all sales transactions.
TotalRevenue ==
    Sum([i \in DOMAIN SalesRows |->
            SalesRows[i].QuantityPurchased * SalesRows[i].Price.n], DOMAIN SalesRows)

\* C22: the Average Transaction Value shown is the total revenue divided by
\* the number of distinct TransactionIDs, rounded to 2 decimal places (it is
\* within half a hundredth of the quotient); with no sales transactions it
\* is 0.
C22_AverageTransactionValue ==
    KpisShown =>
        LET count == Cardinality({SalesRows[i].TransactionID : i \in DOMAIN SalesRows})
            shown == returned[2].metric
        IN  IF count = 0 THEN shown = 0
            ELSE /\ 2 * (shown * count - TotalRevenue) <= count
                 /\ 2 * (TotalRevenue - shown * count) <= count

-----------------------------------------------------------------------------
(* Properties of inventory_analytics (SpecInventory) *)

ProductRows == db.tables[product_inventory].rows

\* The page has shown its low-stock table.
LowStockShown ==
    Len(returned) >= 5 /\ returned[5].query = products_with_zero_stock_query

LowStockRows == returned[5].df.rows

\* The stock of a product in units, -1 when the store has none for it.
Units(r) == IF r.StockLevel.class = "NULL" THEN -1 ELSE r.StockLevel.n \div (100 * r.StockLevel.d)

-----------------------------------------------------------------------------
(* Properties of rfm_query, continued (SpecRfm) *)

-----------------------------------------------------------------------------
(* Properties of the query cache, continued (Spec) *)

\* C25: a call of get_data_from_db(q) made when the store can be read, after
\* an earlier call with the same text has returned the failure value because
\* it could not, reads the store and returns its data.
C25_FailureNotCached ==
    [][\A q \in Queries :
          (/\ GetData(q)
           /\ CacheHit(cache[q])
           /\ cache[q][1].df = EmptyDataFrame
           /\ db.tables[TableOf(q)].present)
              => returned'[1].df = ReadSql(q, db)]_vars

-----------------------------------------------------------------------------
(* Properties of sales_trend, continued (SpecTrend) *)

\* The years of the periods in the frame of the i-th entry of the page.
YearsShown(i) ==
    {returned[i].df.rows[k].SalesPeriod[1] : k \in DOMAIN returned[i].df.rows}

\* The years with a sale in the store.
YearsSold == {SalesRows[i].TransactionDate[1] : i \in DOMAIN SalesRows}

\* C26: with a non-empty selection, the monthly trend and the four top-5
\* statements all carry the same where_clause: none when 'All Years' is among
\* the selected years, whatever else is selected with it, and otherwise the
\* restriction to the selected years.  Their results show it: every year
\* with a sale appears in each of them without the restriction, only the
\* selected years with it (a store of at most 5 days of sales, of which LIMIT
\* 5 cuts nothing).
C26_AllYearsSentinel ==
    (Picked /\ returned[2].selected_years # {}) =>
        LET selected_years == returned[2].selected_years
            restricted == AllYears \notin selected_years
            picked == {o.year : o \in selected_years}
        IN  /\ Len(returned) = 7
            /\ {returned[i].query.name : i \in 3..7} =
                   {"monthly_sales_query", "top_months_revenue_query",
                    "top_days_revenue_query", "top_months_transactions_query",
                    "top_days_transactions_query"}
            /\ \A i \in 3..7 :
                  /\ returned[i].query.filtered <=> restricted
                  /\ returned[i].query.years = IF restricted THEN picked ELSE {}
                  /\ (/\ returned[i].df.columns
                      /\ Cardinality({SalesRows[k].TransactionDate : k \in DOMAIN SalesRows}) <= 5)
                         => YearsShown(i) = IF restricted THEN YearsSold \cap picked
                                            ELSE YearsSold

\* 'All Years' and 2023 are selected together on a store with sales of 2022
\* and 2023, and the five results show both years.
C26_Witness ==
    /\ Picked
    /\ returned[2].selected_years = {AllYears, YearOption(2023)}
    /\ YearsSold = {2022, 2023}
    /\ Len(returned) = 7
    /\ \A i \in 3..7 : returned[i].df.columns /\ YearsShown(i) = {2022, 2023}

====
